---- MODULE Spec2Model ----
(***************************************************************************)
(* A model of the bouncing-ball game engine of src/src/main.rs: the ball   *)
(* constructor, the per-frame pipeline of Engine::run, boundary collision  *)
(* resolution and compositing.                                             *)
(*                                                                         *)
(* Numbers.  The f64 fields (coordinates, velocities, radius, the physics  *)
(* constants) are fixed-point integers counting 1/Unit: 0.5 is 500.  Sums  *)
(* and comparisons are exact; a product is rounded to the nearest 1/Unit,  *)
(* as an f64 product is rounded to the nearest representable value.        *)
(* usize values (viewport size, buffer indices) are plain naturals.        *)
(***************************************************************************)
EXTENDS Integers, Sequences, FiniteSets, TLC

VARIABLES
    window_size,   \* Engine.window_size: [width, height]
    objects,       \* Engine.objects: sequence of balls, in insertion order
    buffer,        \* Engine.buffer: row-major pixels, 1-based here
    window_open,   \* presentation surface: is_open()
    window_keys,   \* presentation surface: the keys currently down
    keys,          \* run's local `keys` of the current frame
    pc,            \* position in the code of the operation under way
    idx,           \* run's position in `for object in self.objects`
    frames,        \* number of frames presented so far
    result,        \* what run returned: "none", "Ok", "Err"
    log,           \* history: the steps taken in the current frame
    frame_start,   \* history: objects as they were when the frame began
    calls,         \* number of collision_checks calls made on the body
    raster_vecs,   \* draw_at's raster_vecs argument
    coords,        \* draw_at's coords argument
    writes,        \* history: <<dx, dy, index>> of every buffer[index] store
    color_hex,     \* Ball::new's color_hex argument, a sequence of characters
    ball_color     \* Ball::new's outcome: "none", "panic" or [color |-> n]

vars == <<window_size, objects, buffer, window_open, window_keys, keys, pc,
          idx, frames, result, log, frame_start, calls, raster_vecs, coords,
          writes, color_hex, ball_color>>

---------------------------------------------------------------------------
(* Fixed-point arithmetic *)

Unit == 1000

Abs(a) == IF a < 0 THEN -a ELSE a

\* a * b of two fixed-point numbers, rounded to the nearest 1/Unit
Mul(a, b) ==
    LET p == a * b
    IN  IF p >= 0 THEN (2 * p + Unit) \div (2 * Unit)
        ELSE -((2 * (-p) + Unit) \div (2 * Unit))

\* `n as f64` of a usize
AsF64(n) == n * Unit

\* `a as usize` of an f64: truncates toward zero and saturates, so every
\* negative value becomes 0
AsUsize(a) == IF a <= 0 THEN 0 ELSE a \div Unit

\* the mathematical floor, which the code never computes
Floor(a) == a \div Unit

Max(S) == CHOOSE m \in S : \A n \in S : n <= m

---------------------------------------------------------------------------
(* Program constants; the f64 ones in 1/Unit *)

GROUND_DRAG_FACTOR == 100       \* 0.1
GRAVITY == 500                  \* 0.5
AIR_RESISTANCE_FACTOR == 10     \* 0.01
DT == 1000                      \* 1.0
KB_X_BOOST == 200               \* Ball::KB_X_BOOST, 0.2
KB_Y_BOOST == 16000             \* Ball::KB_Y_BOOST, 16.0
BallWeightFactor == 800         \* Ball's weight_factor, 0.8
BallBounciness == 600           \* Ball's bounciness, 0.6
White == 16777215               \* 0xffffff

\* Option<T>: None is the empty sequence, Some(v) the sequence <<v>>
None == <<>>

Some(v) == <<v>>

XYPair(x, y) == [x |-> x, y |-> y]

WindowSize(width, height) == [width |-> width, height |-> height]

---------------------------------------------------------------------------
(* The ball: GameObjectCommon plus Ball's own fields *)

\* Ball { radius, diameter, color, common } as Ball::new builds it, the
\* color already converted; GameObjectCommon::default() gives zero
\* velocities and no object_info
Ball(ball_coords, radius, color) ==
    [coords |-> ball_coords,
     velocities |-> XYPair(0, 0),
     object_info |-> None,
     radius |-> radius,
     diameter |-> Mul(radius, 2 * Unit),
     color |-> color]

weight_factor(object) == BallWeightFactor

bounciness(object) == BallBounciness

\* CollisionShape::Circle(self.radius): the radius
collision_shape(object) == object.radius

---------------------------------------------------------------------------
(* Engine: the physics steps, each a function of the body *)

\* calc_velocities with the air drag applied before gravity
calc_velocities_drag_first(object) ==
    LET v0 == object.velocities
        gravity == Mul(Mul(GRAVITY, weight_factor(object)), DT)
        drag == Unit - Mul(AIR_RESISTANCE_FACTOR, DT)
    IN  [object EXCEPT !.velocities =
            XYPair(Mul(v0.x, drag), Mul(v0.y, drag) + gravity)]

calc_velocities(object) ==
    LET v0 == object.velocities
        gravity == Mul(Mul(GRAVITY, weight_factor(object)), DT)
        v1 == [v0 EXCEPT !.y = v0.y + gravity]
        drag == Unit - Mul(AIR_RESISTANCE_FACTOR, DT)
        v2 == [v1 EXCEPT !.x = Mul(v1.x, drag)]
        v3 == [v2 EXCEPT !.y = Mul(v2.y, drag)]
    IN  [object EXCEPT !.velocities = v3]

apply_velocities(object) ==
    [object EXCEPT !.coords = XYPair(object.coords.x + object.velocities.x,
                                     object.coords.y + object.velocities.y)]

update_object_info(size, object) ==
    [object EXCEPT !.object_info = Some([window_size |-> size])]

on_x_collision(object, velocities) ==
    [velocities EXCEPT !.x = Mul(-velocities.x, bounciness(object))]

\* on_y_collision with the ground drag scaling by the factor itself
on_y_collision_scaled(object, on_ground, velocities) ==
    LET v1 == [velocities EXCEPT !.y = Mul(-velocities.y, bounciness(object))]
    IN  IF on_ground /\ Abs(v1.y) <= Unit
        THEN [v1 EXCEPT !.x = Mul(v1.x, GROUND_DRAG_FACTOR)]
        ELSE v1

on_y_collision(object, on_ground, velocities) ==
    LET v1 == [velocities EXCEPT !.y = Mul(-velocities.y, bounciness(object))]
    IN  IF on_ground /\ Abs(v1.y) <= Unit
        THEN [v1 EXCEPT !.x = v1.x - Mul(v1.x, GROUND_DRAG_FACTOR)]
        ELSE v1

\* the four edge tests, in the code's order, each on the coordinates the
\* earlier ones left
LeftTest(c) == c.x <= 0

RightTest(c, diameter, size) == c.x + diameter > AsF64(size.width)

\* the top test against the edge itself
TopTestAtEdge(c, diameter) == c.y < 0

TopTest(c, diameter) == c.y - diameter < 0

BottomTest(c, diameter, size) == c.y + diameter > AsF64(size.height)

collision_checks(size, object) ==
    LET radius == collision_shape(object)
        diameter == Mul(2 * Unit, radius)
        c0 == object.coords
        v0 == object.velocities
        on_ground == c0.y + diameter >= AsF64(size.height)
        \* x axis window collision
        c1 == IF LeftTest(c0) THEN [c0 EXCEPT !.x = 0] ELSE c0
        v1 == IF LeftTest(c0) THEN on_x_collision(object, v0) ELSE v0
        c2 == IF RightTest(c1, diameter, size)
              THEN [c1 EXCEPT !.x = AsF64(size.width) - diameter] ELSE c1
        v2 == IF RightTest(c1, diameter, size)
              THEN on_x_collision(object, v1) ELSE v1
        \* y axis window collision
        c3 == IF TopTest(c2, diameter) THEN [c2 EXCEPT !.y = diameter] ELSE c2
        v3 == IF TopTest(c2, diameter)
              THEN on_y_collision(object, on_ground, v2) ELSE v2
        c4 == IF BottomTest(c3, diameter, size)
              THEN [c3 EXCEPT !.y = AsF64(size.height) - diameter] ELSE c3
        v4 == IF BottomTest(c3, diameter, size)
              THEN on_y_collision(object, on_ground, v3) ELSE v3
    IN  [object EXCEPT !.coords = c4, !.velocities = v4]

---------------------------------------------------------------------------
(* Ball: input handling and rasterization *)

\* handle_input jumping from the floor whatever the vertical velocity
handle_input_any_speed(object, pressed) ==
    LET o1 == IF "A" \in pressed
              THEN [object EXCEPT !.velocities.x = @ - KB_X_BOOST] ELSE object
        o2 == IF "D" \in pressed
              THEN [o1 EXCEPT !.velocities.x = @ + KB_X_BOOST] ELSE o1
        jump == /\ "W" \in pressed
                /\ o2.object_info # None
                /\ o2.coords.y + o2.diameter
                     = AsF64(o2.object_info[1].window_size.height)
    IN  IF jump THEN [o2 EXCEPT !.velocities.y = @ - KB_Y_BOOST] ELSE o2

\* Ball::handle_input; `pressed` is the set of keys in the slice
handle_input(object, pressed) ==
    LET o1 == IF "A" \in pressed
              THEN [object EXCEPT !.velocities.x = @ - KB_X_BOOST] ELSE object
        o2 == IF "D" \in pressed
              THEN [o1 EXCEPT !.velocities.x = @ + KB_X_BOOST] ELSE o1
        \* jump if we are on the ground AND have 0 or lesser y velocity
        jump == /\ "W" \in pressed
                /\ o2.object_info # None
                /\ o2.velocities.y < 0
                /\ o2.coords.y + o2.diameter
                     = AsF64(o2.object_info[1].window_size.height)
    IN  IF jump THEN [o2 EXCEPT !.velocities.y = @ - KB_Y_BOOST] ELSE o2

\* Ball::draw: a (diameter as usize)-square raster; sqrt(dx*dx + dy*dy) <=
\* radius is decided on the squares, which is the same comparison
BallDraw(object) ==
    LET n == AsUsize(object.diameter)
        h == object.radius
        k == object.radius
    IN  [y \in 1..n |->
            [x \in 1..n |->
                LET dx == Abs(AsF64(x - 1) - h)
                    dy == Abs(AsF64(y - 1) - k)
                IN  IF dx * dx + dy * dy <= object.radius * object.radius
                    THEN object.color ELSE 0]]

---------------------------------------------------------------------------
(* Engine: compositing *)

ObjectWidth(raster) ==
    Max({Len(raster[r]) : r \in 1..Len(raster)} \cup {0})

\* Engine::draw_at after the first n (dy, dx) iterations, rows outermost:
\* the buffer, and the set of <<dx, dy, index>> stores made so far
RECURSIVE DrawAtCells(_, _, _, _, _, _)
DrawAtCells(buf, buffer_width, buffer_height, raster, at, n) ==
    IF n = 0 THEN [buffer |-> buf, writes |-> {}]
    ELSE
    LET prev == DrawAtCells(buf, buffer_width, buffer_height, raster, at, n - 1)
        object_width == ObjectWidth(raster)
        dy == (n - 1) \div object_width
        dx == (n - 1) % object_width
        row == raster[dy + 1]
        x == AsUsize(at.x + AsF64(dx))
        y == AsUsize(at.y + AsF64(dy))
        index == y * buffer_width + x
    IN  \* make sure this is not out of the buffer
        IF x < buffer_width /\ y < buffer_height /\ dx < Len(row)
        THEN [buffer |-> [prev.buffer EXCEPT ![index + 1] = row[dx + 1]],
              writes |-> prev.writes \cup {<<dx, dy, index>>}]
        ELSE prev

draw_at(buf, buffer_width, buffer_height, raster, at) ==
    DrawAtCells(buf, buffer_width, buffer_height, raster, at,
                Len(raster) * ObjectWidth(raster))

\* Engine::draw
draw(buf, size, object) ==
    draw_at(buf, size.width, size.height, BallDraw(object), object.coords)

---------------------------------------------------------------------------
(* Ball::new: the color conversion *)

\* The characters a color string is built from here: '#', a hex digit, a
\* letter that is no hex digit, a sign, and one two-byte character.
Chars == {"#", "f", "z", "+", "e_acute"}

Utf8Len(c) == IF c = "e_acute" THEN 2 ELSE 1

\* char::to_digit(16); -1 stands for None
to_digit(c) ==
    IF c = "f" THEN 15 ELSE -1

Ok(v) == [ok |-> TRUE, value |-> v]

Err == [ok |-> FALSE, value |-> 0]

\* the digit loop of u32::from_str_radix: acc * 16 + digit overflows u32
\* exactly when acc >= 2^28
RECURSIVE ParseDigits(_, _)
ParseDigits(digits, acc) ==
    IF Len(digits) = 0 THEN Ok(acc)
    ELSE IF to_digit(Head(digits)) < 0 THEN Err
    ELSE IF acc >= 268435456 THEN Err
    ELSE ParseDigits(Tail(digits), acc * 16 + to_digit(Head(digits)))

\* u32::from_str_radix(src, 16): empty is an error, a lone sign is an
\* error, one leading '+' is accepted
from_str_radix(src) ==
    IF Len(src) = 0 THEN Err
    ELSE IF Len(src) = 1 /\ src[1] = "+" THEN Err
    ELSE IF src[1] = "+" THEN ParseDigits(Tail(src), 0)
    ELSE ParseDigits(src, 0)

\* &color_hex[1..] panics when byte 1 is past the end or inside a character
SlicePanics(str) == Len(str) = 0 \/ Utf8Len(str[1]) > 1

unwrap_or(res, default) == IF res.ok THEN res.value ELSE default

\* the color Ball::new computes, or a panic
BallNewColor(str) ==
    IF SlicePanics(str) THEN [panicked |-> TRUE, color |-> 0]
    ELSE [panicked |-> FALSE,
          color |-> unwrap_or(from_str_radix(Tail(str)), White)]

---------------------------------------------------------------------------
(* Bounds of the model *)

MaxFrames == 2      \* frames Engine::run is followed for
MaxBodies == 2      \* bodies added to the engine
MaxCalls == 2       \* successive collision_checks calls on one body
Margin == 1         \* how far outside the viewport a body may start
MaxSpeed == 2       \* largest starting speed per axis, in pixels per step
MaxLen == 7         \* longest color string

Half == Unit \div 2

ZeroBuffer(size) == [i \in 1..(size.width * size.height) |-> 0]

\* what the operations not under way leave alone
NoRun ==
    /\ window_open = FALSE /\ window_keys = {} /\ keys = {}
    /\ idx = 0 /\ frames = 0 /\ result = "none" /\ log = <<>>
    /\ frame_start = <<>>

NoCollision == calls = 0

NoDrawAt == raster_vecs = <<>> /\ coords = XYPair(0, 0) /\ writes = {}

NoBallNew == color_hex = <<>> /\ ball_color = None

---------------------------------------------------------------------------
(* Engine::run *)

\* the sets of keys down that the presentation surface reports, among
\* Key::A, Key::D, Key::W and Key::Escape
KeySets == {{}, {"A"}, {"D", "W"}, {"W"}, {"Escape"}, {"A", "Escape"}}

RunWindowSizes == {WindowSize(5, 6), WindowSize(6, 8)}

\* where the k-th body of a scene may start: odd bodies have radius 1 and
\* start in the air, one step of free fall above the floor, or on the
\* floor, the first of them at either of two columns; even bodies have
\* radius 2
BallStarts(size, k) ==
    IF k % 2 = 1
    THEN {Ball(XYPair(x, y), Unit, k) :
            x \in IF k = 1 THEN {Half, 3 * Unit} ELSE {2 * Unit + Half},
            y \in {2 * Unit, AsF64(size.height) - 2 * Unit - 396,
                   AsF64(size.height) - 2 * Unit}}
    ELSE {Ball(XYPair(Unit, y), 2 * Unit, k) :
            y \in {AsF64(size.height) - 4 * Unit - Half, 5 * Unit}}

Scenes(size) ==
    UNION {{s \in [1..n -> UNION {BallStarts(size, k) : k \in 1..n}] :
               \A k \in 1..n : s[k] \in BallStarts(size, k)} :
           n \in 0..MaxBodies}

\* Engine::new, then add_game_object for each body of the scene
Init ==
    /\ window_size \in RunWindowSizes
    /\ objects \in Scenes(window_size)
    /\ buffer = ZeroBuffer(window_size)
    /\ window_open = FALSE
    /\ window_keys = {}
    /\ keys = {}
    /\ pc = "window_new"
    /\ idx = 0
    /\ frames = 0
    /\ result = "none"
    /\ log = <<>>
    /\ frame_start = objects
    /\ NoCollision /\ NoDrawAt /\ NoBallNew

others == <<calls, raster_vecs, coords, color_hex, ball_color>>

\* Window::new(...)?: the surface opens, or run returns the error
WindowNew ==
    /\ pc = "window_new"
    /\ \/ /\ window_open' = TRUE
          /\ window_keys' \in KeySets
          /\ pc' = "loop_test"
          /\ result' = result
       \/ /\ result' = "Err"
          /\ pc' = "returned"
          /\ UNCHANGED <<window_open, window_keys>>
    /\ UNCHANGED <<window_size, objects, buffer, keys, idx, frames, log,
                   frame_start, writes, others>>

\* the loop test without the escape key
LoopTestIgnoresEscape ==
    /\ pc = "loop_test"
    /\ IF window_open
       THEN /\ frames < MaxFrames
            /\ pc' = "get_keys"
            /\ result' = result
       ELSE /\ pc' = "returned"
            /\ result' = "Ok"
    /\ UNCHANGED <<window_size, objects, buffer, window_open, window_keys,
                   keys, idx, frames, log, frame_start, writes, calls,
                   raster_vecs, coords, color_hex, ball_color>>

\* while window.is_open() && !window.is_key_down(Key::Escape)
LoopTest ==
    /\ pc = "loop_test"
    /\ IF window_open /\ "Escape" \notin window_keys
       THEN /\ frames < MaxFrames
            /\ pc' = "get_keys"
            /\ result' = result
       ELSE /\ pc' = "returned"
            /\ result' = "Ok"
    /\ UNCHANGED <<window_size, objects, buffer, window_open, window_keys,
                   keys, idx, frames, log, frame_start, writes, others>>

\* let keys = window.get_keys()
GetKeys ==
    /\ pc = "get_keys"
    /\ keys' = window_keys
    /\ log' = <<>>
    /\ frame_start' = objects
    /\ pc' = "clear"
    /\ UNCHANGED <<window_size, objects, buffer, window_open, window_keys,
                   idx, frames, result, writes, others>>

\* the loop over the bodies stopping one body early
ForNextStopsEarly(i) ==
    IF i < Len(objects) THEN "calc_velocities" ELSE "update_with_buffer"

\* where the `for object in self.objects` loop goes from body i
ForNext(i) ==
    IF i <= Len(objects) THEN "calc_velocities" ELSE "update_with_buffer"

\* clear the display buffer, and enter the loop over the bodies
ClearBuffer ==
    /\ pc = "clear"
    /\ buffer' = [i \in DOMAIN buffer |-> 0]
    /\ log' = Append(log, <<"clear", 0>>)
    /\ idx' = 1
    /\ pc' = ForNext(1)
    /\ UNCHANGED <<window_size, objects, window_open, window_keys, keys,
                   frames, result, frame_start, writes, others>>

\* what a step on the current object leaves alone
StepFrame ==
    UNCHANGED <<window_size, buffer, window_open, window_keys, keys, idx,
                frames, result, frame_start, writes, others>>

\* re-calculate the velocities of the object
CalcVelocities ==
    /\ pc = "calc_velocities"
    /\ objects' = [objects EXCEPT ![idx] = calc_velocities(objects[idx])]
    /\ log' = Append(log, <<"calc_velocities", idx>>)
    /\ pc' = "apply_velocities"
    /\ StepFrame

\* apply the velocities to the coordinates
ApplyVelocities ==
    /\ pc = "apply_velocities"
    /\ objects' = [objects EXCEPT ![idx] = apply_velocities(objects[idx])]
    /\ log' = Append(log, <<"apply_velocities", idx>>)
    /\ pc' = "collision_checks"
    /\ StepFrame

\* perform collision checks with the window
CollisionChecks ==
    /\ pc = "collision_checks"
    /\ objects' = [objects EXCEPT
                     ![idx] = collision_checks(window_size, objects[idx])]
    /\ log' = Append(log, <<"collision_checks", idx>>)
    /\ pc' = "update_object_info"
    /\ StepFrame

\* update the game object's info
UpdateObjectInfo ==
    /\ pc = "update_object_info"
    /\ objects' = [objects EXCEPT
                     ![idx] = update_object_info(window_size, objects[idx])]
    /\ log' = Append(log, <<"update_object_info", idx>>)
    /\ pc' = "handle_input"
    /\ StepFrame

\* allow the object to react to pressed keys
HandleInput ==
    /\ pc = "handle_input"
    /\ objects' = [objects EXCEPT ![idx] = handle_input(objects[idx], keys)]
    /\ log' = Append(log, <<"handle_input", idx>>)
    /\ pc' = "draw"
    /\ StepFrame

\* Engine::draw, then on to the next body
Draw ==
    /\ pc = "draw"
    /\ LET drawn == draw(buffer, window_size, objects[idx])
       IN  buffer' = drawn.buffer /\ writes' = drawn.writes
    /\ log' = Append(log, <<"draw", idx>>)
    /\ idx' = idx + 1
    /\ pc' = ForNext(idx + 1)
    /\ UNCHANGED <<window_size, objects, window_open, window_keys, keys,
                   frames, result, frame_start, others>>

\* window.update_with_buffer(...)?: the surface shows the buffer and polls
\* its events, or fails and run returns the error
UpdateWithBuffer ==
    /\ pc = "update_with_buffer"
    /\ log' = Append(log, <<"update_with_buffer", 0>>)
    /\ \/ /\ window_open' \in BOOLEAN
          /\ window_keys' \in KeySets
          /\ frames' = frames + 1
          /\ pc' = "loop_test"
          /\ result' = result
       \/ /\ result' = "Err"
          /\ pc' = "returned"
          /\ UNCHANGED <<window_open, window_keys, frames>>
    /\ UNCHANGED <<window_size, objects, buffer, keys, idx, frame_start,
                   writes, others>>

Next ==
    \/ WindowNew
    \/ LoopTest
    \/ GetKeys
    \/ ClearBuffer
    \/ CalcVelocities
    \/ ApplyVelocities
    \/ CollisionChecks
    \/ UpdateObjectInfo
    \/ HandleInput
    \/ Draw
    \/ UpdateWithBuffer

Spec == Init /\ [][Next]_vars

---------------------------------------------------------------------------
(* Engine::collision_checks on its own: any viewport, any body state *)

CollisionWindowSizes == {WindowSize(w, h) : w \in {3, 5}, h \in {5, 8}}

Radii == {Unit, 2 * Unit}

\* coordinates from Margin outside the viewport to Margin past it, by halves
Grid(n) == {k * Half : k \in (-2 * Margin)..(2 * (n + Margin))}

Speeds == {k * Unit : k \in (-MaxSpeed)..MaxSpeed}

InitCollision ==
    /\ window_size \in CollisionWindowSizes
    /\ \E x \in Grid(window_size.width), y \in Grid(window_size.height),
          vx \in Speeds, vy \in Speeds, radius \in Radii :
          objects = <<[Ball(XYPair(x, y), radius, 1)
                         EXCEPT !.velocities = XYPair(vx, vy)]>>
    /\ buffer = ZeroBuffer(window_size)
    /\ pc = "collision_checks"
    /\ NoRun /\ NoCollision /\ NoDrawAt /\ NoBallNew

\* one more call of Engine::collision_checks on the body
CollisionChecksCall ==
    /\ pc = "collision_checks"
    /\ calls < MaxCalls
    /\ objects' = <<collision_checks(window_size, objects[1])>>
    /\ calls' = calls + 1
    /\ UNCHANGED <<window_size, buffer, window_open, window_keys, keys, pc,
                   idx, frames, result, log, frame_start, raster_vecs,
                   coords, writes, color_hex, ball_color>>

NextCollision == CollisionChecksCall

SpecCollision == InitCollision /\ [][NextCollision]_vars

---------------------------------------------------------------------------
(* Engine::draw_at on its own: any buffer content, raster and position *)

DrawWindowSizes == {WindowSize(3, 2), WindowSize(2, 3)}

\* the colors the buffer may hold: nothing, or what an earlier body left
Earlier == {0, 7}

\* the rasters of the two balls, and one with rows of unequal length
Rasters ==
    {BallDraw(Ball(XYPair(0, 0), radius, 1)) : radius \in Radii}
        \cup {<<<<1>>, <<0, 1, 1>>, <<>>>>}

InitDrawAt ==
    /\ window_size \in DrawWindowSizes
    /\ buffer \in [1..(window_size.width * window_size.height) -> Earlier]
    /\ raster_vecs \in Rasters
    /\ \E x \in Grid(window_size.width), y \in Grid(window_size.height) :
          coords = XYPair(x, y)
    /\ writes = {}
    /\ objects = <<>>
    /\ pc = "draw_at"
    /\ NoRun /\ NoCollision /\ NoBallNew

DrawAt ==
    /\ pc = "draw_at"
    /\ LET drawn == draw_at(buffer, window_size.width, window_size.height,
                            raster_vecs, coords)
       IN  buffer' = drawn.buffer /\ writes' = drawn.writes
    /\ pc' = "drawn"
    /\ UNCHANGED <<window_size, objects, window_open, window_keys, keys, idx,
                   frames, result, log, frame_start, calls, raster_vecs,
                   coords, color_hex, ball_color>>

NextDrawAt == DrawAt

SpecDrawAt == InitDrawAt /\ [][NextDrawAt]_vars

---------------------------------------------------------------------------
(* Ball::new on its own: any color string *)

\* every string of at most n characters
Strings(n) == UNION {[1..len -> Chars] : len \in 0..n}

InitBallNew ==
    /\ color_hex \in Strings(MaxLen)
    /\ ball_color = None
    /\ window_size = WindowSize(0, 0)
    /\ objects = <<>>
    /\ buffer = <<>>
    /\ pc = "ball_new"
    /\ NoRun /\ NoCollision /\ NoDrawAt

BallNew ==
    /\ pc = "ball_new"
    /\ ball_color' = Some(BallNewColor(color_hex))
    /\ pc' = "constructed"
    /\ UNCHANGED <<window_size, objects, buffer, window_open, window_keys,
                   keys, idx, frames, result, log, frame_start, calls,
                   raster_vecs, coords, writes, color_hex>>

NextBallNew == BallNew

SpecBallNew == InitBallNew /\ [][NextBallNew]_vars

---------------------------------------------------------------------------
(* Claims about Engine::collision_checks, under SpecCollision *)

Body == objects[1]

Diameter == 2 * Body.radius

Width == AsF64(window_size.width)

Height == AsF64(window_size.height)

XBounds == Body.coords.x >= 0 /\ Body.coords.x + Diameter <= Width

YBounds == Body.coords.y >= Diameter /\ Body.coords.y + Diameter <= Height

\* C1 as stated: after a call of collision_checks the body satisfies
\* x >= 0, x + diameter <= width, y >= diameter and y + diameter <= height,
\* whatever the viewport.
C1_BoundsAnyViewport == calls >= 1 => XBounds /\ YBounds

\* C1 amended: after a call of collision_checks, x >= 0 and x + diameter <=
\* width hold when the viewport is at least one diameter wide, and y >=
\* diameter and y + diameter <= height hold when it is at least two
\* diameters high.
C1_BoundsFittingViewport ==
    calls >= 1 =>
        /\ Width >= Diameter => XBounds
        /\ Height >= 2 * Diameter => YBounds

\* a body that both axes clamped, in a viewport that fits it
C1_Witness ==
    /\ calls = 1
    /\ Width >= Diameter /\ Height >= 2 * Diameter
    /\ Body.coords.x = Width - Diameter
    /\ Body.coords.y = Diameter
    /\ Body.velocities.x # 0 /\ Body.velocities.y # 0

\* C2: a state collision_checks has produced is left unchanged, position
\* and velocity, by calling collision_checks again.
C2_Idempotent == [][calls >= 1 => objects' = objects]_vars

\* the body strictly inside the left and right edges
OffSideEdges == Body.coords.x > 0 /\ Body.coords.x + Diameter < Width

\* the vertical speed the bounce reflection leaves is at most 1.0
SlowBounce == Abs(Mul(-Body.velocities.y, bounciness(Body))) <= Unit

\* horizontal velocity goes from v to v * 0.9 (v a multiple of 0.01, so
\* that the product is exact)
DragApplied ==
    /\ Body.velocities.x % 10 = 0
    /\ 10 * objects'[1].velocities.x = 9 * Body.velocities.x

\* C5 as stated: a disc exactly on the floor (y + diameter = height) with a
\* slow bounce, nonzero horizontal velocity v and off the side edges leaves
\* one call of collision_checks with horizontal velocity v * 0.9.
C5_DragOnFloor ==
    [][(/\ Body.coords.y + Diameter = Height
        /\ SlowBounce
        /\ Body.velocities.x # 0
        /\ OffSideEdges) => DragApplied]_vars

\* C5 amended: a disc whose bottom edge is past the floor (y + diameter >
\* height) and whose top is not past the top edge (y >= diameter), with a
\* slow bounce, nonzero horizontal velocity v and off the side edges,
\* leaves one call of collision_checks exactly on the floor with horizontal
\* velocity v * 0.9.
C5_DragPastFloor ==
    [][(/\ Body.coords.y + Diameter > Height
        /\ Body.coords.y >= Diameter
        /\ SlowBounce
        /\ Body.velocities.x # 0
        /\ OffSideEdges)
       => /\ DragApplied
          /\ objects'[1].coords.y + Diameter = Height]_vars

\* a body put on the floor with the dragged 0.9 px/step: the starting
\* speeds are whole numbers, and reflections give multiples of 0.6
C5_Witness ==
    /\ calls = 1
    /\ Body.coords.y + Diameter = Height
    /\ Height >= 2 * Diameter
    /\ OffSideEdges
    /\ Body.velocities.x = 9 * (Unit \div 10)
    /\ Abs(Body.velocities.y) <= Unit

---------------------------------------------------------------------------
(* Claims about Engine::draw_at, under SpecDrawAt *)

\* the absolute cell of raster cell (dx, dy): floor(position) + offset
CellX(dx) == Floor(coords.x) + dx

CellY(dy) == Floor(coords.y) + dy

InBuffer(x, y) ==
    /\ 0 <= x /\ x < window_size.width
    /\ 0 <= y /\ y < window_size.height

\* C3: compositing leaves the buffer cell of every in-bounds raster cell
\* holding the sentinel 0 as it was, so that what an earlier body drew
\* there stays.
C3_SentinelKeepsBuffer ==
    [][pc = "draw_at" =>
        \A dy \in 0..(Len(raster_vecs) - 1) :
            \A dx \in 0..(Len(raster_vecs[dy + 1]) - 1) :
                (raster_vecs[dy + 1][dx + 1] = 0 /\ InBuffer(CellX(dx), CellY(dy)))
                => LET index == CellY(dy) * window_size.width + CellX(dx)
                   IN  buffer'[index + 1] = buffer[index + 1]]_vars

\* C4: compositing stores nothing for a raster cell whose absolute cell is
\* outside [0, width) x [0, height), negative coordinates included, and
\* every index it stores to is below width * height.
C4_OutsideCellsDropped ==
    pc = "drawn" =>
        \A w \in writes :
            /\ InBuffer(CellX(w[1]), CellY(w[2]))
            /\ w[3] < window_size.width * window_size.height

---------------------------------------------------------------------------
(* Claims about Ball::new, under SpecBallNew *)

\* '#' followed by exactly six hex digits
WellFormed(str) ==
    /\ Len(str) = 7
    /\ str[1] = "#"
    /\ \A i \in 2..7 : to_digit(str[i]) >= 0

\* C10: Ball::new fails on no color string, and every string that is not
\* of the form #RRGGBB gives the color 0xFFFFFF.
C10_MalformedIsWhite ==
    pc = "constructed" =>
        /\ ~ball_color[1].panicked
        /\ ~WellFormed(color_hex) => ball_color[1].color = White

---------------------------------------------------------------------------
(* Claims about Engine::run, under Spec *)

BodySteps ==
    <<"calc_velocities", "apply_velocities", "collision_checks",
      "update_object_info", "handle_input", "draw">>

\* the steps of one whole frame over n bodies, in the claimed order
FrameLog(n) ==
    [j \in 1..(6 * n + 2) |->
        IF j = 1 THEN <<"clear", 0>>
        ELSE IF j = 6 * n + 2 THEN <<"update_with_buffer", 0>>
        ELSE <<BodySteps[((j - 2) % 6) + 1], ((j - 2) \div 6) + 1>>]

IsPrefix(p, q) == Len(p) <= Len(q) /\ \A j \in 1..Len(p) : p[j] = q[j]

NothingDrawn == \A j \in 1..Len(log) : log[j][1] # "draw"

\* C6: every frame clears the whole buffer before any body is drawn, then
\* takes the six steps of each body in insertion order, one body after the
\* other, and presents the buffer after the last body is composited.
C6_FrameOrder ==
    /\ IsPrefix(log, FrameLog(Len(objects)))
    /\ (pc = "loop_test" /\ frames > 0) => log = FrameLog(Len(objects))
    /\ (log # <<>> /\ NothingDrawn) => \A i \in DOMAIN buffer : buffer[i] = 0

\* a second frame over two bodies has been presented
C6_Witness ==
    /\ pc = "loop_test"
    /\ frames = 2
    /\ Len(objects) = 2
    /\ log = FrameLog(2)
    /\ \E i \in DOMAIN buffer : buffer[i] # 0

Running == pc \notin {"window_new", "returned"}

MayGoOn == window_open /\ "Escape" \notin window_keys

\* C7 as stated: the loop is left only at its test, when the surface is
\* closed or escape is down, and run then returns Ok without another frame;
\* while the surface is open and escape is up a frame follows the test, and
\* the test follows every frame.
C7_LeftOnlyAtTest ==
    [][/\ (Running /\ pc' = "returned") =>
            (pc = "loop_test" /\ ~MayGoOn /\ result' = "Ok")
       /\ (pc = "loop_test" /\ MayGoOn) => pc' = "get_keys"
       /\ (pc = "loop_test" /\ ~MayGoOn) =>
            (pc' = "returned" /\ result' = "Ok"
                /\ UNCHANGED <<objects, buffer, frames>>)
       /\ pc = "update_with_buffer" => pc' = "loop_test"]_vars

\* C7 amended: the loop is left only at its test, when the surface is
\* closed or escape is down, run then returning Ok without another frame,
\* or when presenting the buffer fails, run then returning the error; while
\* the surface is open and escape is up a frame follows the test, and the
\* test follows every frame whose presentation succeeded.
C7_LeftAtTestOrOnError ==
    [][/\ (Running /\ pc' = "returned") =>
            \/ (pc = "loop_test" /\ ~MayGoOn /\ result' = "Ok")
            \/ (pc = "update_with_buffer" /\ result' = "Err")
       /\ (pc = "loop_test" /\ MayGoOn) => pc' = "get_keys"
       /\ (pc = "loop_test" /\ ~MayGoOn) =>
            (pc' = "returned" /\ result' = "Ok"
                /\ UNCHANGED <<objects, buffer, frames>>)
       /\ (pc = "update_with_buffer" /\ result' # "Err") => pc' = "loop_test"
       /\ pc = "returned" => UNCHANGED vars]_vars

\* run has returned Ok after one frame, on escape with the surface open
C7_Witness ==
    /\ pc = "returned"
    /\ result = "Ok"
    /\ frames = 1
    /\ window_open
    /\ "Escape" \in window_keys

OneFrame(object, size, pressed) ==
    handle_input(
        update_object_info(size,
            collision_checks(size, apply_velocities(calc_velocities(object)))),
        pressed)

\* the velocity the claim gives: gravity first, then drag
ClaimedVelocity(before) ==
    LET drag == Unit - Mul(AIR_RESISTANCE_FACTOR, DT)
    IN  XYPair(Mul(before.velocities.x, drag),
               Mul(before.velocities.y
                     + Mul(Mul(GRAVITY, weight_factor(before)), DT), drag))

\* the position the claim gives: the old position plus the new velocity
ClaimedPosition(before) ==
    XYPair(before.coords.x + ClaimedVelocity(before).x,
           before.coords.y + ClaimedVelocity(before).y)

NoEdgeTestFires(c, diameter, size) ==
    /\ ~LeftTest(c) /\ ~RightTest(c, diameter, size)
    /\ ~TopTest(c, diameter) /\ ~BottomTest(c, diameter, size)

\* main's ball and viewport
MainWindow == WindowSize(800, 600)

MainBall == Ball(XYPair(376 * Unit, 276 * Unit), 24 * Unit, 1)

\* C9: with no keys pressed, a body that no edge test fires on after
\* integration ends the frame with velocity.y = (velocity.y + 0.5 *
\* weight_factor * 1.0) * 0.99, velocity.x = velocity.x * 0.99 and position
\* = old position + new velocity; main's ball ends its first frame with
\* velocity.y = 0.396 and position.y = 276.396, no edge test having fired.
C9_FreeFlight ==
    /\ pc = "update_with_buffer" =>
         \A i \in 1..Len(objects) :
            (/\ keys = {}
             /\ NoEdgeTestFires(ClaimedPosition(frame_start[i]),
                                2 * frame_start[i].radius, window_size))
            => /\ objects[i].velocities = ClaimedVelocity(frame_start[i])
               /\ objects[i].coords = ClaimedPosition(frame_start[i])
    /\ LET after == OneFrame(MainBall, MainWindow, {})
       IN  /\ after.velocities = XYPair(0, 396)
           /\ after.coords = XYPair(376 * Unit, 276396)
           /\ NoEdgeTestFires(after.coords, 2 * MainBall.radius, MainWindow)

\* a frame with no keys has ended with a body in free flight from rest
C9_Witness ==
    /\ pc = "update_with_buffer"
    /\ keys = {}
    /\ \E i \in 1..Len(objects) :
          /\ NoEdgeTestFires(ClaimedPosition(frame_start[i]),
                             2 * frame_start[i].radius, window_size)
          /\ frame_start[i].velocities = XYPair(0, 0)
          /\ objects[i].velocities.y = 396

====
